---- MODULE Spec2Model ----
(***************************************************************************)
(* Model of exercises/23_conversions/try_from_into.rs: the three fallible *)
(* conversions into Color (from an (i16, i16, i16) tuple, from a [T; 3]   *)
(* array and from a &[T] slice).  The conversions are pure functions; the *)
(* state machine picks an input, calls each conversion once and records   *)
(* what it returned.                                                       *)
(***************************************************************************)
EXTENDS Integers, Sequences, FiniteSets

\* Longest slice handed to the slice conversion.
MaxLen == 4

\* Value ranges of the integer types involved.
U8Min == 0
U8Max == 255
I16Min == -32768
I16Max == 32767

\* Sample element values: both ends of i16, the values next to both ends of
\* u8, the values used by main, and a value only a wider T can hold
\* (T = i32 for the array and slice forms).
Vals == {I16Min, U8Min - 1, U8Min, 14, 65, 183, U8Max, U8Max + 1, I16Max, 70000}

I16 == I16Min..I16Max

U8 == U8Min..U8Max

(***************************************************************************)
(* struct Color and enum IntoColorError, and the Result carrying them.     *)
(***************************************************************************)
Color(r, g, b) == [red |-> r, green |-> g, blue |-> b]

\* Placeholder payload of a Result that carries no Color.
NoColor == Color(0, 0, 0)

IntoColorError == {"BadLen", "IntConversion"}

Ok(c) == [kind |-> "Ok", color |-> c]

Err(e) == [kind |-> e, color |-> NoColor]

\* The conversion has not been called yet.
NotCalled == [kind |-> "NotCalled", color |-> NoColor]

\* A conversion that unwinds instead of returning.
Panicked == [kind |-> "Panic", color |-> NoColor]

(***************************************************************************)
(* u8::try_from(v): Ok(v) when v fits in a u8, Err otherwise.              *)
(***************************************************************************)
\* `v as u8`: always succeeds, keeping the low 8 bits.
U8TryFromWrapping(v) == [ok |-> TRUE, val |-> v % (U8Max + 1)]

\* Upper bound excluded.
U8TryFromExclusive(v) ==
    IF v >= U8Min /\ v < U8Max THEN [ok |-> TRUE, val |-> v]
                               ELSE [ok |-> FALSE, val |-> 0]

U8TryFrom(v) ==
    IF v >= U8Min /\ v <= U8Max THEN [ok |-> TRUE, val |-> v]
                                ELSE [ok |-> FALSE, val |-> 0]

(***************************************************************************)
(* Iterator over a sequence: the k-th call of next() on a fresh iterator.  *)
(***************************************************************************)
IterNext(elems, k) ==
    IF k <= Len(elems) THEN [some |-> TRUE, val |-> elems[k]]
                       ELSE [some |-> FALSE, val |-> 0]

\* Option::map(u8::try_from)
MapU8TryFrom(opt) ==
    IF opt.some THEN [some |-> TRUE, res |-> U8TryFrom(opt.val)]
                ELSE [some |-> FALSE, res |-> [ok |-> FALSE, val |-> 0]]

\* The pattern Some(Ok(_))
IsSomeOk(m) == m.some /\ m.res.ok

(***************************************************************************)
(* impl TryFrom<(i16, i16, i16)> for Color                                 *)
(***************************************************************************)
\* green and blue exchanged
TupleTryFromSwapped(tuple) ==
    LET red == U8TryFrom(tuple[1])
        green == U8TryFrom(tuple[2])
        blue == U8TryFrom(tuple[3])
    IN IF red.ok /\ green.ok /\ blue.ok
          THEN Ok(Color(red.val, blue.val, green.val))
          ELSE Err("IntConversion")

\* only the first channel validated, the others cast
TupleTryFromFirstOnly(tuple) ==
    LET red == U8TryFrom(tuple[1])
        green == U8TryFromWrapping(tuple[2])
        blue == U8TryFromWrapping(tuple[3])
    IN IF red.ok /\ green.ok /\ blue.ok
          THEN Ok(Color(red.val, green.val, blue.val))
          ELSE Err("IntConversion")

TupleTryFrom(tuple) ==
    LET red == U8TryFrom(tuple[1])
        green == U8TryFrom(tuple[2])
        blue == U8TryFrom(tuple[3])
    IN IF red.ok /\ green.ok /\ blue.ok
          THEN Ok(Color(red.val, green.val, blue.val))
          ELSE Err("IntConversion")

(***************************************************************************)
(* impl<T> TryFrom<[T; 3]> for Color                                       *)
(***************************************************************************)
\* elements cast with `as u8` instead of u8::try_from
ArrayTryFromCast(arr) ==
    Ok(Color(U8TryFromWrapping(arr[1]).val,
             U8TryFromWrapping(arr[2]).val,
             U8TryFromWrapping(arr[3]).val))

ArrayTryFrom(arr) ==
    LET red == MapU8TryFrom(IterNext(arr, 1))
        green == MapU8TryFrom(IterNext(arr, 2))
        blue == MapU8TryFrom(IterNext(arr, 3))
    IN IF IsSomeOk(red) /\ IsSomeOk(green) /\ IsSomeOk(blue)
          THEN Ok(Color(red.res.val, green.res.val, blue.res.val))
          ELSE Err("IntConversion")

(***************************************************************************)
(* impl<T: Clone + Copy> TryFrom<&[T]> for Color                           *)
(***************************************************************************)
\* The four-tuple the let-else pattern is matched against.
SliceValues(slice) ==
    [first |-> MapU8TryFrom(IterNext(slice, 1)),
     second |-> MapU8TryFrom(IterNext(slice, 2)),
     third |-> MapU8TryFrom(IterNext(slice, 3)),
     fourth |-> IterNext(slice, 4)]

\* The pattern (Some(Ok(red)), Some(Ok(green)), Some(Ok(blue)), None)
SliceDestructure(v) ==
    IF IsSomeOk(v.first) /\ IsSomeOk(v.second) /\ IsSomeOk(v.third) /\ ~v.fourth.some
       THEN Ok(Color(v.first.res.val, v.second.res.val, v.third.res.val))
       ELSE Err("IntConversion")

\* length check left out
SliceTryFromNoLenCheck(slice) == SliceDestructure(SliceValues(slice))

\* only too-short slices rejected
SliceTryFromShortOnly(slice) ==
    IF Len(slice) < 3 THEN Err("BadLen")
    ELSE LET v == SliceValues(slice)
         IN IF IsSomeOk(v.first) /\ IsSomeOk(v.second) /\ IsSomeOk(v.third)
               THEN Ok(Color(v.first.res.val, v.second.res.val, v.third.res.val))
               ELSE Err("IntConversion")

\* fields filled back to front
SliceTryFromReversed(slice) ==
    IF Len(slice) # 3 THEN Err("BadLen")
    ELSE LET v == SliceValues(slice)
         IN IF IsSomeOk(v.first) /\ IsSomeOk(v.second) /\ IsSomeOk(v.third) /\ ~v.fourth.some
               THEN Ok(Color(v.third.res.val, v.second.res.val, v.first.res.val))
               ELSE Err("IntConversion")

\* narrowing results unwrapped instead of matched
SliceTryFromUnwrap(slice) ==
    IF Len(slice) # 3 THEN Err("BadLen")
    ELSE LET v == SliceValues(slice)
         IN IF IsSomeOk(v.first) /\ IsSomeOk(v.second) /\ IsSomeOk(v.third) /\ ~v.fourth.some
               THEN Ok(Color(v.first.res.val, v.second.res.val, v.third.res.val))
               ELSE Panicked

SliceTryFrom(slice) ==
    IF Len(slice) # 3 THEN Err("BadLen")
    ELSE SliceDestructure(SliceValues(slice))

\* What the slice conversion evaluated after its length check: the matched
\* four-tuple, or nothing when it returned at the length check.
NoValues == [evaluated |-> FALSE, values |-> SliceValues(<<>>)]

SliceTrace(slice) ==
    IF Len(slice) # 3 THEN NoValues
    ELSE [evaluated |-> TRUE, values |-> SliceValues(slice)]

(***************************************************************************)
(* State: the input values and what each conversion returned for them.     *)
(***************************************************************************)
VARIABLES input, tupleRes, arrayRes, sliceRes, sliceTrace

vars == <<input, tupleRes, arrayRes, sliceRes, sliceTrace>>

RECURSIVE SeqsOfLen(_)
SeqsOfLen(n) ==
    IF n = 0 THEN {<<>>}
    ELSE {Append(s, v) : s \in SeqsOfLen(n - 1), v \in Vals}

Inputs == UNION {SeqsOfLen(n) : n \in 0..MaxLen}

Init ==
    /\ input \in Inputs
    /\ tupleRes = NotCalled
    /\ arrayRes = NotCalled
    /\ sliceRes = NotCalled
    /\ sliceTrace = NoValues

\* Color::try_from((a, b, c)): three i16 values.
CallTuple ==
    /\ tupleRes = NotCalled
    /\ Len(input) = 3
    /\ \A i \in 1..3 : input[i] \in I16
    /\ tupleRes' = TupleTryFrom(input)
    /\ UNCHANGED <<input, arrayRes, sliceRes, sliceTrace>>

\* [a, b, c].try_into(): three values of any T.
CallArray ==
    /\ arrayRes = NotCalled
    /\ Len(input) = 3
    /\ arrayRes' = ArrayTryFrom(input)
    /\ UNCHANGED <<input, tupleRes, sliceRes, sliceTrace>>

\* Color::try_from(&v[..]): a slice of any length.
CallSlice ==
    /\ sliceRes = NotCalled
    /\ sliceRes' = SliceTryFrom(input)
    /\ sliceTrace' = SliceTrace(input)
    /\ UNCHANGED <<input, tupleRes, arrayRes>>

Next == CallTuple \/ CallArray \/ CallSlice

Spec == Init /\ [][Next]_vars

(***************************************************************************)
(* Properties                                                              *)
(***************************************************************************)
Results == {"Ok"} \cup IntoColorError

InRange(s) == \A i \in 1..Len(s) : s[i] \in U8

TupleCalled == tupleRes # NotCalled

ArrayCalled == arrayRes # NotCalled

SliceCalled == sliceRes # NotCalled

\* C1: the slice conversion returns Err(BadLen) for every slice whose length
\* is not 3, whatever its elements are.
C1_BadLenFirst ==
    (SliceCalled /\ Len(input) # 3) => sliceRes = Err("BadLen")

\* A slice of the wrong length holding an out-of-range element was rejected
\* for its length.
C1_Witness ==
    /\ SliceCalled
    /\ Len(input) = 4
    /\ ~InRange(input)
    /\ sliceRes = Err("BadLen")

\* C2: the tuple conversion of three values in 0..=255 returns Ok with
\* red, green, blue equal to the first, second, third value.
C2_TupleOk ==
    (TupleCalled /\ InRange(input)) =>
        tupleRes = Ok(Color(input[1], input[2], input[3]))

\* The boundary values 0 and 255 were converted.
C2_Witness ==
    /\ TupleCalled
    /\ input = <<U8Min, U8Max, 183>>
    /\ tupleRes.kind = "Ok"

\* C3: the tuple conversion returns Err(IntConversion) as soon as one of the
\* three values is below 0 or above 255, whichever position it is in.
C3_TupleIntConversion ==
    (TupleCalled /\ ~InRange(input)) => tupleRes = Err("IntConversion")

\* Only the last value is out of range, by one.
C3_Witness ==
    /\ TupleCalled
    /\ input = <<U8Max, U8Min, U8Max + 1>>
    /\ tupleRes = Err("IntConversion")

\* C4: the slice conversion of three elements returns Err(IntConversion)
\* when at least one of them is outside 0..=255.
C4_SliceIntConversion ==
    (SliceCalled /\ Len(input) = 3 /\ ~InRange(input)) =>
        sliceRes = Err("IntConversion")

\* Only the middle element is out of range.
C4_Witness ==
    /\ SliceCalled
    /\ input = <<U8Max, U8Min - 1, U8Max>>
    /\ sliceRes = Err("IntConversion")

\* C5: the slice conversion of three elements in 0..=255 returns Ok with the
\* fields in positional order and the values unchanged.
C5_SliceOk ==
    (SliceCalled /\ Len(input) = 3 /\ InRange(input)) =>
        sliceRes = Ok(Color(input[1], input[2], input[3]))

\* The slice main converts.
C5_Witness ==
    /\ SliceCalled
    /\ input = <<183, 65, 14>>
    /\ sliceRes.kind = "Ok"

\* C6: the array conversion returns Ok with the fields in positional order
\* when all three elements are in 0..=255, Err(IntConversion) otherwise, and
\* never Err(BadLen).
C6_Array ==
    ArrayCalled =>
        /\ InRange(input) => arrayRes = Ok(Color(input[1], input[2], input[3]))
        /\ ~InRange(input) => arrayRes = Err("IntConversion")
        /\ arrayRes.kind # "BadLen"

\* An array with one element too wide even for i16 was rejected.
C6_Witness ==
    /\ ArrayCalled
    /\ input = <<14, 70000, U8Max>>
    /\ arrayRes = Err("IntConversion")

OkFaithful(res) ==
    res.kind = "Ok" =>
        /\ res.color.red \in U8 /\ res.color.green \in U8 /\ res.color.blue \in U8
        /\ Len(input) = 3
        /\ res.color.red = input[1]
        /\ res.color.green = input[2]
        /\ res.color.blue = input[3]

\* C7: a Color returned inside Ok by any of the three conversions has all
\* fields in 0..=255 and each field equal to the corresponding input value.
C7_OkColorInRange ==
    OkFaithful(tupleRes) /\ OkFaithful(arrayRes) /\ OkFaithful(sliceRes)

\* All three conversions returned a Color.
C7_Witness ==
    tupleRes.kind = "Ok" /\ arrayRes.kind = "Ok" /\ sliceRes.kind = "Ok"

\* C8: for the same three values the tuple, array and slice conversions
\* return equal results.
C8_EntryPointsAgree ==
    /\ (TupleCalled /\ ArrayCalled) => tupleRes = arrayRes
    /\ (TupleCalled /\ SliceCalled) => tupleRes = sliceRes
    /\ (ArrayCalled /\ SliceCalled) => arrayRes = sliceRes

\* The three conversions were all called on main's values.
C8_Witness ==
    /\ TupleCalled /\ ArrayCalled /\ SliceCalled
    /\ input = <<183, 65, 14>>
    /\ sliceRes = Ok(Color(183, 65, 14))

\* C9: every conversion that was called returned Ok, Err(BadLen) or
\* Err(IntConversion); none unwound.
C9_NoPanic ==
    /\ TupleCalled => tupleRes.kind \in Results
    /\ ArrayCalled => arrayRes.kind \in Results
    /\ SliceCalled => sliceRes.kind \in Results

\* All three conversions were called on values none of which fits in a u8,
\* and each answered with an error value.
C9_Witness ==
    /\ TupleCalled /\ ArrayCalled /\ SliceCalled
    /\ input = <<I16Min, U8Max + 1, I16Max>>
    /\ sliceRes.kind \in IntoColorError

\* C10: once the length check of the slice conversion has passed, the first
\* three next() calls are Some and the fourth is None, and the slice
\* conversion returns Err(IntConversion) only for a slice of length 3 with an
\* element outside 0..=255.
C10_FourthNextIsNone ==
    /\ sliceTrace.evaluated =>
        /\ sliceTrace.values.first.some
        /\ sliceTrace.values.second.some
        /\ sliceTrace.values.third.some
        /\ ~sliceTrace.values.fourth.some
    /\ sliceRes.kind = "IntConversion" =>
        /\ Len(input) = 3
        /\ ~InRange(input)
        /\ sliceTrace.evaluated

\* The let-else diverged although the fourth next() was None.
C10_Witness ==
    /\ sliceTrace.evaluated
    /\ ~sliceTrace.values.fourth.some
    /\ sliceRes.kind = "IntConversion"

====
